---- MODULE Spec2Model ----
(***************************************************************************)
(* A model of code/drive.py: the Drive dataset, the sample transforms      *)
(* (CenterCrop, RandomCrop, RandomNoise, CreateOnehotLabel) and the        *)
(* TwoStreamBatchSampler with its iteration helpers.                       *)
(*                                                                         *)
(* Arrays are modelled by what the code reads of them: a shape is the      *)
(* sequence of its extents, an index list is a sequence of integers, and   *)
(* real-valued pixels are integers in a fixed unit.  Every random draw of  *)
(* the code (np.random.permutation, randint, randn) is a nondeterministic  *)
(* choice over the values the draw can return.                             *)
(***************************************************************************)
EXTENDS Integers, Sequences, FiniteSets, TLC

VARIABLES
    \* ---- TwoStreamBatchSampler ----
    primary_indices,        \* self.primary_indices
    secondary_indices,      \* self.secondary_indices
    batch_size,             \* the batch_size argument of __init__
    secondary_batch_size,   \* self.secondary_batch_size
    primary_batch_size,     \* self.primary_batch_size
    sampler_pc,             \* "args", "constructed", "AssertionError", "iterating", "stopped"; "idle" when unused
    primary_iter,           \* what is left of iterate_once(primary_indices)
    secondary_iter,         \* what is left of the shuffles iterate_eternally has produced
    batches,                \* the batches the current iteration has yielded, in order
    len_result,             \* <<n>> after a call of __len__ returned n, <<>> before
    \* ---- Drive ----
    loaded,                 \* what load_dataset returned: [image, label, mask], index-aligned
    image_list,             \* self.image_list
    label_list,             \* self.label_list
    mask_list,              \* self.mask_list
    transform,              \* self.transform: "None" or "CreateOnehotLabel"
    drive_pc,               \* "new" before __init__ has run, "ready" after; "idle" when unused
    getitem_call,           \* <<>>, or <<the last __getitem__ call: its idx and outcome>>
    drive_len,              \* <<n>> after a call of __len__ returned n, <<>> before
    \* ---- RandomNoise ----
    rn_mu,                  \* self.mu
    rn_sigma,               \* self.sigma
    rn_call,                \* <<>>, or <<the __call__ made: its sample and what it returned>>
    \* ---- CreateOnehotLabel ----
    oh_num_classes,         \* self.num_classes
    oh_call,                \* <<>>, or <<the __call__ made: its sample and what it returned>>
    \* ---- CenterCrop ----
    cc_output_size,         \* self.output_size, two entries
    cc_call,                \* <<>>, or <<the __call__ made: its sample and its outcome>>
    \* ---- RandomCrop ----
    rc_output_size,         \* self.output_size, three entries
    rc_with_sdf,            \* self.with_sdf
    rc_call                 \* <<>>, or <<the __call__ made: its sample and its outcome>>

samplerVars == <<primary_indices, secondary_indices, batch_size, secondary_batch_size,
                 primary_batch_size, sampler_pc, primary_iter, secondary_iter, batches,
                 len_result>>

driveVars == <<loaded, image_list, label_list, mask_list, transform, drive_pc,
               getitem_call, drive_len>>

noiseVars == <<rn_mu, rn_sigma, rn_call>>

onehotVars == <<oh_num_classes, oh_call>>

centerCropVars == <<cc_output_size, cc_call>>

randomCropVars == <<rc_output_size, rc_with_sdf, rc_call>>

vars == <<samplerVars, driveVars, noiseVars, onehotVars, centerCropVars, randomCropVars>>

----------------------------------------------------------------------------
\* Bounds of the model.

MaxPrimary == 3           \* longest primary_indices
MaxSecondary == 2         \* longest secondary_indices
MaxBatch == 3             \* largest batch_size and secondary_batch_size
StreamMaxPrimary == 2     \* the same two, where the secondary stream is followed
StreamMaxSecondary == 3

----------------------------------------------------------------------------
\* Helpers on sequences.

Range(s) == {s[i] : i \in 1..Len(s)}

Count(s, x) == Cardinality({i \in 1..Len(s) : s[i] = x})

Distinct(s) == \A i, j \in 1..Len(s) : s[i] = s[j] => i = j

RECURSIVE Flatten(_)
Flatten(ss) == IF ss = <<>> THEN <<>> ELSE Head(ss) \o Flatten(Tail(ss))

\* np.random.permutation(x): every reordering of x is a possible result.
permutation(s) ==
    LET n == Len(s)
        bij == {p \in [1..n -> 1..n] : \A i, j \in 1..n : p[i] = p[j] => i = j}
    IN  {[i \in 1..n |-> s[p[i]]] : p \in bij}

\* Python's s[a:b] on a sequence of length n: the positions it keeps (0-based
\* a and b, negative ones counted from the end, both clamped to the sequence).
SliceBound(i, n) == IF i < 0 THEN (IF i + n < 0 THEN 0 ELSE i + n) ELSE (IF i > n THEN n ELSE i)

PySlice(s, a, b) == SubSeq(s, SliceBound(a, Len(s)) + 1, SliceBound(b, Len(s)))

Min(a, b) == IF a <= b THEN a ELSE b
Max(a, b) == IF a >= b THEN a ELSE b

\* The values the variables of a component hold while another one is studied.
SamplerIdle ==
    /\ primary_indices = <<>> /\ secondary_indices = <<>>
    /\ batch_size = 0 /\ secondary_batch_size = 0 /\ primary_batch_size = 0
    /\ sampler_pc = "idle"
    /\ primary_iter = <<>> /\ secondary_iter = <<>> /\ batches = <<>> /\ len_result = <<>>

DriveIdle ==
    /\ loaded = [image |-> <<>>, label |-> <<>>, mask |-> <<>>]
    /\ image_list = <<>> /\ label_list = <<>> /\ mask_list = <<>>
    /\ transform = "None" /\ drive_pc = "idle"
    /\ getitem_call = <<>> /\ drive_len = <<>>

NoiseIdle == rn_mu = 0 /\ rn_sigma = 0 /\ rn_call = <<>>

OnehotIdle == oh_num_classes = 0 /\ oh_call = <<>>

CenterCropIdle == cc_output_size = <<>> /\ cc_call = <<>>

RandomCropIdle == rc_output_size = <<>> /\ rc_with_sdf = FALSE /\ rc_call = <<>>

notSampler == <<driveVars, noiseVars, onehotVars, centerCropVars, randomCropVars>>
notDrive == <<samplerVars, noiseVars, onehotVars, centerCropVars, randomCropVars>>
notNoise == <<samplerVars, driveVars, onehotVars, centerCropVars, randomCropVars>>
notOnehot == <<samplerVars, driveVars, noiseVars, centerCropVars, randomCropVars>>
notCenterCrop == <<samplerVars, driveVars, noiseVars, onehotVars, randomCropVars>>
notRandomCrop == <<samplerVars, driveVars, noiseVars, onehotVars, centerCropVars>>

----------------------------------------------------------------------------
\* TwoStreamBatchSampler

\* The index lists a caller passes: lists of distinct dataset indices, and
\* lists that name one index twice.  The two pools are disjoint.
IndexLists(base, maxLen) ==
    {[i \in 1..n |-> base + i] : n \in 0..maxLen}
    \cup {[i \in 1..n |-> IF i = n THEN base + 1 ELSE base + i] : n \in 2..maxLen}

SecondaryBase == 10

\* AssertsHold with the check of the secondary pool's size left out.
AssertsHold_NoSecondaryLen(pi, si, pbs, sbs) ==
    /\ Len(pi) >= pbs /\ pbs > 0
    /\ sbs > 0

\* The two assert statements of __init__.
AssertsHold(pi, si, pbs, sbs) ==
    /\ Len(pi) >= pbs /\ pbs > 0
    /\ Len(si) >= sbs /\ sbs > 0

\* __init__
Construct ==
    /\ sampler_pc = "args"
    /\ primary_batch_size' = batch_size - secondary_batch_size
    /\ sampler_pc' = IF AssertsHold(primary_indices, secondary_indices,
                                    batch_size - secondary_batch_size, secondary_batch_size)
                     THEN "constructed" ELSE "AssertionError"
    /\ UNCHANGED <<primary_indices, secondary_indices, batch_size, secondary_batch_size,
                   primary_iter, secondary_iter, batches, len_result>>
    /\ UNCHANGED notSampler

\* iterate_once drawing with replacement instead of shuffling.
iterate_once_WithReplacement(iterable) == [1..Len(iterable) -> Range(iterable)]

\* iterate_once(iterable): one shuffle of the list.
iterate_once(iterable) == permutation(iterable)

\* grouper that hands out the incomplete trailing group instead of dropping it.
grouper_KeepPartial(it, n) ==
    IF n <= 0 \/ it = <<>> THEN [ok |-> FALSE, group |-> <<>>, rest |-> it]
    ELSE IF Len(it) >= n
         THEN [ok |-> TRUE, group |-> SubSeq(it, 1, n), rest |-> SubSeq(it, n + 1, Len(it))]
         ELSE [ok |-> TRUE, group |-> it, rest |-> <<>>]

\* grouper(iterable, n) over a finite iterator, one next(): zip(*[iter]*n) pulls n
\* items from the one shared iterator; when it runs dry part-way the items already
\* pulled are lost and the zip stops.  With n <= 0 the zip has no arguments and
\* stops at once.
grouper(it, n) ==
    IF n <= 0 THEN [ok |-> FALSE, group |-> <<>>, rest |-> it]
    ELSE IF Len(it) >= n
         THEN [ok |-> TRUE, group |-> SubSeq(it, 1, n), rest |-> SubSeq(it, n + 1, Len(it))]
         ELSE [ok |-> FALSE, group |-> <<>>, rest |-> <<>>]

\* iterate_eternally that starts a fresh shuffle at every group, dropping what was
\* left of the current one.
iterate_eternally_FreshEachGroup(indices, buf, n) ==
    {<<SubSeq(p, 1, n), SubSeq(p, n + 1, Len(p))>> :
        p \in {q \in permutation(indices) : Len(q) >= n}}

\* iterate_eternally(indices) under grouper(.., n), one next(): the chain hands out
\* what is left of the current shuffle and draws a fresh shuffle of indices each
\* time it runs dry.  The set of the possible <<group, rest>>; empty when indices is
\* empty (the chain then spins forever without producing an item).
RECURSIVE iterate_eternally(_, _, _)
iterate_eternally(indices, buf, n) ==
    IF n <= 0 THEN {<<<<>>, buf>>}
    ELSE IF buf = <<>>
         THEN IF indices = <<>> THEN {}
              ELSE UNION {iterate_eternally(indices, p, n) : p \in permutation(indices)}
         ELSE {<<<<Head(buf)>> \o t[1], t[2]>> : t \in iterate_eternally(indices, Tail(buf), n - 1)}

\* __iter__: both iterators are created; nothing is drawn from the chain yet.
\* The sampler keeps nothing from one iterator to the next (both streams are made
\* anew here), so one iterator per sampler shows every epoch there is.
Iter ==
    /\ sampler_pc = "constructed"
    /\ primary_iter' \in iterate_once(primary_indices)
    /\ secondary_iter' = <<>>
    /\ batches' = <<>>
    /\ sampler_pc' = "iterating"
    /\ UNCHANGED <<primary_indices, secondary_indices, batch_size, secondary_batch_size,
                   primary_batch_size, len_result>>
    /\ UNCHANGED notSampler

\* One next() of the generator __iter__ returns: zip asks the primary grouper
\* first and stops when it stops, without touching the secondary one.
NextBatch ==
    /\ sampler_pc = "iterating"
    /\ LET g1 == grouper(primary_iter, primary_batch_size)
       IN  IF ~g1.ok
           THEN /\ primary_iter' = g1.rest
                /\ sampler_pc' = "stopped"
                /\ UNCHANGED <<secondary_iter, batches>>
           ELSE IF secondary_batch_size <= 0
           THEN /\ primary_iter' = g1.rest
                /\ sampler_pc' = "stopped"
                /\ UNCHANGED <<secondary_iter, batches>>
           ELSE \E g2 \in iterate_eternally(secondary_indices, secondary_iter,
                                            secondary_batch_size) :
                    /\ primary_iter' = g1.rest
                    /\ secondary_iter' = g2[2]
                    /\ batches' = Append(batches, g1.group \o g2[1])
                    /\ sampler_pc' = "iterating"
    /\ UNCHANGED <<primary_indices, secondary_indices, batch_size, secondary_batch_size,
                   primary_batch_size, len_result>>
    /\ UNCHANGED notSampler

\* __len__
Length(pi, pbs) == Len(pi) \div pbs

LenCall ==
    /\ sampler_pc \in {"constructed", "iterating", "stopped"}
    /\ len_result' = <<Length(primary_indices, primary_batch_size)>>
    /\ UNCHANGED <<primary_indices, secondary_indices, batch_size, secondary_batch_size,
                   primary_batch_size, sampler_pc, primary_iter, secondary_iter, batches>>
    /\ UNCHANGED notSampler

SamplerInit ==
    /\ primary_indices \in IndexLists(0, MaxPrimary)
    /\ secondary_indices \in IndexLists(SecondaryBase, MaxSecondary)
    /\ batch_size \in 0..MaxBatch
    /\ secondary_batch_size \in 0..MaxBatch
    /\ primary_batch_size = 0
    /\ sampler_pc = "args"
    /\ primary_iter = <<>>
    /\ secondary_iter = <<>>
    /\ batches = <<>>
    /\ len_result = <<>>
    /\ DriveIdle /\ NoiseIdle /\ OnehotIdle /\ CenterCropIdle /\ RandomCropIdle

SamplerNext == Construct \/ Iter \/ NextBatch \/ LenCall

SpecSampler == SamplerInit /\ [][SamplerNext]_vars

\* The consumer of an iterator (a for loop, a DataLoader) keeps calling next()
\* until the iterator stops.
FairSampler == SpecSampler /\ WF_vars(NextBatch)

\* The same sampler over shorter epochs and a larger secondary pool.
StreamInit ==
    /\ primary_indices \in IndexLists(0, StreamMaxPrimary)
    /\ secondary_indices \in IndexLists(SecondaryBase, StreamMaxSecondary)
    /\ batch_size \in 0..MaxBatch
    /\ secondary_batch_size \in 0..MaxBatch
    /\ primary_batch_size = 0
    /\ sampler_pc = "args"
    /\ primary_iter = <<>>
    /\ secondary_iter = <<>>
    /\ batches = <<>>
    /\ len_result = <<>>
    /\ DriveIdle /\ NoiseIdle /\ OnehotIdle /\ CenterCropIdle /\ RandomCropIdle

SpecStream == StreamInit /\ [][SamplerNext]_vars

----------------------------------------------------------------------------
\* Arrays.  An array is [shape, data]: its extents and its elements in row-major
\* order.  A sample is a record of arrays, keyed as the code's dict is.

RECURSIVE Product(_)
Product(sh) == IF sh = <<>> THEN 1 ELSE Head(sh) * Product(Tail(sh))

\* The shapes of the arrays handed to the element-wise transforms: two- and
\* three-dimensional ones of up to maxElems elements.
SmallShapes(maxElems) ==
    {<<1, n>> : n \in 1..maxElems} \cup {<<1, 1, n>> : n \in 1..maxElems}
    \cup {<<n, 1, 1>> : n \in 1..maxElems}

Arrays(shapes, values) ==
    UNION {{[shape |-> sh, data |-> d] : d \in [1..Product(sh) -> values]} : sh \in shapes}

\* a[lo:hi, ...]: a slice of the first axis.
FirstAxisSlice(a, lo, hi) ==
    LET row == Product(Tail(a.shape))
        from == SliceBound(lo, Head(a.shape))
        to == SliceBound(hi, Head(a.shape))
        n == IF to > from THEN to - from ELSE 0
    IN  [shape |-> <<n>> \o Tail(a.shape),
         data |-> SubSeq(a.data, from * row + 1, (from + n) * row)]

----------------------------------------------------------------------------
\* RandomNoise.  A pixel is an integer number of units; sigma and mu are whole
\* numbers of the same unit, and np.random.randn returns a whole number of
\* standard deviations between -MaxZ and MaxZ.

MaxZ == 3               \* largest draw of randn, in standard deviations
MaxSigma == 2           \* largest sigma
MaxMu == 1              \* largest |mu|
MaxPixels == 2          \* most elements of an image
MaxPixel == 1           \* largest pixel value

\* np.clip that hands its input back unclipped.
Clip_Off(x, lo, hi) == x

\* np.clip(x, lo, hi) = minimum(maximum(x, lo), hi)
Clip(x, lo, hi) == Min(Max(x, lo), hi)

\* One element of noise, lines 142 and 143: clipped, then shifted by mu.
NoiseValues(mu, sigma) == {Clip(sigma * z, -2 * sigma, 2 * sigma) + mu : z \in -MaxZ..MaxZ}

\* RandomNoise.__call__: what it can return.  randn is given image.shape[0],
\* image.shape[1] and image.shape[2], so an image of fewer than three axes ends
\* the call with an IndexError.
RandomNoise(mu, sigma, sample) ==
    IF Len(sample.image.shape) < 3
    THEN {[status |-> "IndexError", sample |-> sample]}
    ELSE {[status |-> "ok",
           sample |-> [image |-> [shape |-> sample.image.shape,
                                  data |-> [i \in 1..Len(sample.image.data) |->
                                               sample.image.data[i] + n[i]]],
                       label |-> sample.label]] :
             n \in [1..Len(sample.image.data) -> NoiseValues(mu, sigma)]}

\* Samples whose label has the image's shape and holds class ids 0 and 1.
NoiseSamples ==
    UNION {{[image |-> im, label |-> lb] :
               lb \in Arrays({im.shape}, {0, 1})} :
           im \in Arrays(SmallShapes(MaxPixels), 0..MaxPixel)}

\* __call__ of a RandomNoise(mu, sigma).  The object keeps nothing between
\* calls, so one call shows every call.
RandomNoiseCall ==
    /\ rn_call = <<>>
    /\ \E sample \in NoiseSamples :
           \E out \in RandomNoise(rn_mu, rn_sigma, sample) :
               rn_call' = <<[sample |-> sample, status |-> out.status, out |-> out.sample]>>
    /\ UNCHANGED <<rn_mu, rn_sigma>>
    /\ UNCHANGED notNoise

NoiseInit ==
    /\ rn_mu \in -MaxMu..MaxMu
    /\ rn_sigma \in -1..MaxSigma
    /\ rn_call = <<>>
    /\ SamplerIdle /\ DriveIdle /\ OnehotIdle /\ CenterCropIdle /\ RandomCropIdle

NoiseNext == RandomNoiseCall

SpecNoise == NoiseInit /\ [][NoiseNext]_vars

----------------------------------------------------------------------------
\* CreateOnehotLabel

MaxClasses == 3         \* largest num_classes
MaxVoxels == 3          \* most elements of a label
MaxLabel == 2           \* largest label value; the smallest is -1

\* (label == i).astype(np.float32) with the comparison off by one.
Indicator_OffByOne(label, i) ==
    [k \in 1..Len(label.data) |-> IF label.data[k] = i + 1 THEN 1 ELSE 0]

\* (label == i).astype(np.float32)
Indicator(label, i) ==
    [k \in 1..Len(label.data) |-> IF label.data[k] = i THEN 1 ELSE 0]

\* CreateOnehotLabel.__call__: np.zeros is given label.shape[0], label.shape[1]
\* and label.shape[2], so a label of fewer than three axes ends the call with an
\* IndexError.  onehot_label.data holds the num_classes channels in order.
CreateOnehotLabel(num_classes, sample) ==
    IF Len(sample.label.shape) < 3
    THEN [status |-> "IndexError", sample |-> sample]
    ELSE [status |-> "ok",
          sample |-> [image |-> sample.image, label |-> sample.label,
                      onehot_label |->
                          [shape |-> <<num_classes, sample.label.shape[1],
                                       sample.label.shape[2], sample.label.shape[3]>>,
                           data |-> [c \in 1..num_classes |->
                                        Indicator(sample.label, c - 1)]]]]

OnehotSamples ==
    UNION {{[image |-> im, label |-> lb] :
               im \in Arrays({lb.shape}, {0})} :
           lb \in Arrays(SmallShapes(MaxVoxels), -1..MaxLabel)}

\* __call__ of a CreateOnehotLabel(num_classes); one call shows every call.
CreateOnehotLabelCall ==
    /\ oh_call = <<>>
    /\ \E sample \in OnehotSamples :
           LET r == CreateOnehotLabel(oh_num_classes, sample)
           IN  oh_call' = <<[sample |-> sample, status |-> r.status, out |-> r.sample]>>
    /\ UNCHANGED oh_num_classes
    /\ UNCHANGED notOnehot

OnehotInit ==
    /\ oh_num_classes \in 0..MaxClasses
    /\ oh_call = <<>>
    /\ SamplerIdle /\ DriveIdle /\ NoiseIdle /\ CenterCropIdle /\ RandomCropIdle

OnehotNext == CreateOnehotLabelCall

SpecOnehot == OnehotInit /\ [][OnehotNext]_vars

----------------------------------------------------------------------------
\* Drive.  An entry of a dataset array is one sample's array of shape (C, 1, 1):
\* C channels of one pixel each.

MaxSamples == 3         \* most samples load_dataset returns
MaxChannels == 2        \* most channels of an image or a label

\* load_dataset: three index-aligned arrays; every pixel is told apart by its
\* value (100 * sample + 10 * array + channel).
LoadedSets ==
    {[image |-> [i \in 1..n |-> [shape |-> <<ci, 1, 1>>,
                                 data |-> [c \in 1..ci |-> 100 * i + 10 + c]]],
      label |-> [i \in 1..n |-> [shape |-> <<cl, 1, 1>>,
                                 data |-> [c \in 1..cl |-> 100 * i + 20 + c]]],
      mask  |-> [i \in 1..n |-> [shape |-> <<cl, 1, 1>>,
                                 data |-> [c \in 1..cl |-> 100 * i + 30 + c]]]] :
        n \in 0..MaxSamples, ci \in 1..MaxChannels, cl \in 1..MaxChannels}

\* arr[ids, :, :, :] with a list of 0-based indices.
Take(arr, ids) == [k \in 1..Len(ids) |-> arr[ids[k] + 1]]

\* Lines 22 to 24 with the label array left in its loaded order.
Shuffled_LabelNotReordered(data, ids) ==
    [image |-> Take(data.image, ids), label |-> data.label, mask |-> Take(data.mask, ids)]

\* Lines 22 to 24: the three arrays reordered by one index list.
Shuffled(data, ids) ==
    [image |-> Take(data.image, ids), label |-> Take(data.label, ids),
     mask |-> Take(data.mask, ids)]

\* __init__
DriveConstruct ==
    /\ drive_pc = "new"
    /\ \E shuffle_ids \in permutation([i \in 1..Len(loaded.image) |-> i - 1]) :
           LET r == Shuffled(loaded, shuffle_ids)
           IN  /\ image_list' = r.image
               /\ label_list' = r.label
               /\ mask_list' = r.mask
    /\ drive_pc' = "ready"
    /\ UNCHANGED <<loaded, transform, getitem_call, drive_len>>
    /\ UNCHANGED notDrive

\* __len__
DriveLen ==
    /\ drive_pc = "ready"
    /\ drive_len' = <<Len(image_list)>>
    /\ UNCHANGED <<loaded, image_list, label_list, mask_list, transform, drive_pc, getitem_call>>
    /\ UNCHANGED notDrive

\* An integer index that accepts 0 <= idx < n only.
ArrayIndex_NonNegativeOnly(idx, n) == IF 0 <= idx /\ idx < n THEN idx + 1 ELSE 0

\* arr[idx] on the first axis of an array of n entries, idx an integer: the
\* 1-based position read, or 0 for an IndexError.  A negative idx counts from
\* the end.
ArrayIndex(idx, n) ==
    IF 0 <= idx /\ idx < n THEN idx + 1
    ELSE IF -n <= idx /\ idx < 0 THEN idx + n + 1
    ELSE 0

\* self.transform(sample), for the transforms a Drive is given here.
ApplyTransform(t, sample) ==
    IF t = "CreateOnehotLabel" THEN CreateOnehotLabel(2, sample).sample ELSE sample

\* __getitem__
DriveGetItem ==
    /\ drive_pc = "ready"
    /\ \E idx \in -(MaxSamples + 1)..(MaxSamples + 1) :
           LET pos == ArrayIndex(idx, Len(image_list))
           IN  IF pos = 0
               THEN getitem_call' = <<[idx |-> idx, status |-> "IndexError"]>>
               ELSE getitem_call' =
                        <<[idx |-> idx, status |-> "ok",
                           sample |-> ApplyTransform(transform,
                               [image |-> image_list[pos],
                                label |-> FirstAxisSlice(label_list[pos], 0, 1)])]>>
    /\ UNCHANGED <<loaded, image_list, label_list, mask_list, transform, drive_pc, drive_len>>
    /\ UNCHANGED notDrive

DriveInit ==
    /\ loaded \in LoadedSets
    /\ image_list = <<>> /\ label_list = <<>> /\ mask_list = <<>>
    /\ transform \in {"None", "CreateOnehotLabel"}
    /\ drive_pc = "new"
    /\ getitem_call = <<>>
    /\ drive_len = <<>>
    /\ SamplerIdle /\ NoiseIdle /\ OnehotIdle /\ CenterCropIdle /\ RandomCropIdle

DriveNext == DriveConstruct \/ DriveLen \/ DriveGetItem

SpecDrive == DriveInit /\ [][DriveNext]_vars

----------------------------------------------------------------------------
\* CenterCrop and RandomCrop.  The crops read and change shapes only, so an
\* array is modelled here by its shape, the sequence of its extents.

MaxExtent == 3          \* largest extent of an axis of a sample
MaxCrop == 2            \* largest entry of output_size

\* The number of items a[lo:hi] keeps of an axis of n items.
SliceLen(n, lo, hi) ==
    IF SliceBound(hi, n) > SliceBound(lo, n) THEN SliceBound(hi, n) - SliceBound(lo, n) ELSE 0

\* The pad width without its margin of 3.
PadWidth_NoMargin(out, size) == Max((out - size) \div 2, 0)

\* max((output_size[d] - label.shape[d]) // 2 + 3, 0): lines 50, 51, 87 and 88.
PadWidth(out, size) == Max((out - size) \div 2 + 3, 0)

\* int(round(x / 2.)) for an integer x: Python rounds a half to the even
\* neighbour.
RoundHalf(x) ==
    LET k == x \div 2
    IN  IF x % 2 = 0 THEN k ELSE IF k % 2 = 0 THEN k ELSE k + 1

\* np.pad(a, [(pw, pw), (ph, ph)]): two pairs fit an array of two axes only;
\* on any other array numpy raises a ValueError.
Pad2(sh, pw, ph) ==
    IF Len(sh) = 2
    THEN [status |-> "ok", shape |-> <<sh[1] + 2 * pw, sh[2] + 2 * ph>>]
    ELSE [status |-> "ValueError", shape |-> sh]

\* a[w1:w1 + o0, h1:h1 + o1]: the first two axes sliced, the others kept.
Crop2(sh, w1, h1, out) ==
    <<SliceLen(sh[1], w1, w1 + out[1]), SliceLen(sh[2], h1, h1 + out[2])>>
        \o SubSeq(sh, 3, Len(sh))

\* CenterCrop.__call__
CenterCrop(output_size, sample) ==
    LET pads == \/ sample.label[1] <= output_size[1]
                \/ sample.label[2] <= output_size[2]
        pw == PadWidth(output_size[1], sample.label[1])
        ph == PadWidth(output_size[2], sample.label[2])
        pi == IF pads THEN Pad2(sample.image, pw, ph)
                      ELSE [status |-> "ok", shape |-> sample.image]
        pl == IF pads THEN Pad2(sample.label, pw, ph)
                      ELSE [status |-> "ok", shape |-> sample.label]
        failed == [status |-> "ValueError", padded |-> pads,
                   image |-> sample.image, label |-> sample.label]
    IN  IF pi.status # "ok" THEN failed                 \* line 52
        ELSE IF pl.status # "ok" THEN failed            \* line 53
        ELSE IF Len(pi.shape) # 3 THEN failed           \* line 55: (w, h, d) = image.shape
        ELSE LET w1 == RoundHalf(pi.shape[1] - output_size[1])
                 h1 == RoundHalf(pi.shape[2] - output_size[2])
             IN  [status |-> "ok", padded |-> pads,
                  image |-> Crop2(pi.shape, w1, h1, output_size),
                  label |-> Crop2(pl.shape, w1, h1, output_size)]

\* Samples of equal spatial shape: image and label of two or three axes each.
CenterCropSamples ==
    {[image |-> <<w, h>> \o ti, label |-> <<w, h>> \o tl] :
        w \in 1..MaxExtent, h \in 1..MaxExtent,
        ti \in {<<>>} \cup {<<d>> : d \in 1..MaxExtent},
        tl \in {<<>>, <<1>>}}

\* __call__ of a CenterCrop(output_size); one call shows every call.
CenterCropCall ==
    /\ cc_call = <<>>
    /\ \E sample \in CenterCropSamples :
           cc_call' = <<[sample |-> sample, out |-> CenterCrop(cc_output_size, sample)]>>
    /\ UNCHANGED cc_output_size
    /\ UNCHANGED notCenterCrop

CenterCropInit ==
    /\ cc_output_size \in [1..2 -> 1..MaxCrop]
    /\ cc_call = <<>>
    /\ SamplerIdle /\ DriveIdle /\ NoiseIdle /\ OnehotIdle /\ RandomCropIdle

CenterCropNext == CenterCropCall

SpecCenterCrop == CenterCropInit /\ [][CenterCropNext]_vars

\* a[:, w1:w1 + o1, h1:h1 + o2]: the shape left, and where the slice starts.
Crop3(sh, w1, h1, out) ==
    [shape |-> <<sh[1], SliceLen(sh[2], w1, w1 + out[2]), SliceLen(sh[3], h1, h1 + out[3])>>,
     at |-> <<w1, h1>>]

\* np.pad(a, [(0, 0), (pw, pw), (ph, ph)]) on an array of three axes.
Pad3(sh, pw, ph) == <<sh[1], sh[2] + 2 * pw, sh[3] + 2 * ph>>

\* RandomCrop.__call__: the outcomes it can have.  np.random.randint(0, high)
\* raises a ValueError when high <= 0.
RandomCrop(output_size, with_sdf, sample) ==
    LET pads == \/ sample.label[1] <= output_size[1]
                \/ sample.label[2] <= output_size[2]
                \/ sample.label[3] <= output_size[3]
        pw == PadWidth(output_size[2], sample.label[2])
        ph == PadWidth(output_size[3], sample.label[3])
        image == IF pads THEN Pad3(sample.image, pw, ph) ELSE sample.image
        label == IF pads THEN Pad3(sample.label, pw, ph) ELSE sample.label
        sdf == IF pads THEN Pad3(sample.sdf, pw, ph) ELSE sample.sdf
        w == image[2]
        h == image[3]
    IN  IF w - output_size[2] <= 0 \/ h - output_size[3] <= 0
        THEN {[status |-> "ValueError", padded |-> pads, w |-> w, h |-> h]}
        ELSE {[status |-> "ok", padded |-> pads, w |-> w, h |-> h, w1 |-> w1, h1 |-> h1,
               out |-> IF with_sdf
                       THEN [image |-> Crop3(image, w1, h1, output_size),
                             label |-> Crop3(label, w1, h1, output_size),
                             sdf |-> Crop3(sdf, w1, h1, output_size)]
                       ELSE [image |-> Crop3(image, w1, h1, output_size),
                             label |-> Crop3(label, w1, h1, output_size)]] :
                 w1 \in 0..(w - output_size[2] - 1), h1 \in 0..(h - output_size[3] - 1)}

\* Samples of three-axis arrays.  Image, label and sdf each have their own
\* extent on axis 0; on axes 1 and 2 the image and the sdf have the label's
\* extents or, in a malformed sample, others.
RandomCropSamples ==
    {[image |-> <<di, w + ei, h>>, label |-> <<dl, w, h>>,
      sdf |-> IF es = 0 THEN <<dl, w, h>> ELSE <<dl, 1, 1>>] :
        dl \in 1..MaxExtent, di \in {1, MaxExtent}, w \in 1..MaxExtent, h \in 1..MaxExtent,
        ei \in {0, 1}, es \in {0, 1}}

\* __call__ of a RandomCrop(output_size, with_sdf); one call shows every call.
RandomCropCall ==
    /\ rc_call = <<>>
    /\ \E sample \in RandomCropSamples :
           \E r \in RandomCrop(rc_output_size, rc_with_sdf, sample) :
               rc_call' = <<[sample |-> sample, r |-> r]>>
    /\ UNCHANGED <<rc_output_size, rc_with_sdf>>
    /\ UNCHANGED notRandomCrop

RandomCropInit ==
    /\ rc_output_size \in [1..3 -> 1..MaxCrop]
    /\ rc_with_sdf \in BOOLEAN
    /\ rc_call = <<>>
    /\ SamplerIdle /\ DriveIdle /\ NoiseIdle /\ OnehotIdle /\ CenterCropIdle

RandomCropNext == RandomCropCall

SpecRandomCrop == RandomCropInit /\ [][RandomCropNext]_vars

----------------------------------------------------------------------------
\* Properties of TwoStreamBatchSampler.

Iterated == sampler_pc \in {"iterating", "stopped"}

\* The primary and the secondary part of a yielded batch.
PrimaryPart(b) == SubSeq(b, 1, primary_batch_size)
SecondaryPart(b) == SubSeq(b, primary_batch_size + 1, Len(b))

PrimaryEmitted == Flatten([k \in 1..Len(batches) |-> PrimaryPart(batches[k])])
SecondaryEmitted == Flatten([k \in 1..Len(batches) |-> SecondaryPart(batches[k])])

\* The counts of C1, in every state of an iteration.
BatchCounts ==
    Iterated =>
        LET n == Len(primary_indices) \div primary_batch_size
        IN  /\ Len(batches) <= n
            /\ sampler_pc = "stopped" => Len(batches) = n
            /\ sampler_pc = "iterating" =>
                   Len(primary_iter) = Len(primary_indices) - Len(batches) * primary_batch_size
            /\ len_result # <<>> => len_result[1] = n
            /\ \A k \in 1..Len(batches) :
                   Len(batches[k]) = primary_batch_size + secondary_batch_size

\* C1: one iteration yields exactly len(primary_indices) // primary_batch_size
\* batches and then stops; that number is what __len__ returns; every batch has
\* primary_batch_size + secondary_batch_size entries; whatever the secondary pool's
\* size, the primary stream alone decides the stop: after k batches exactly
\* len(primary_indices) - k * primary_batch_size primary items are left, and an
\* iteration that is consumed does stop.
C1_BatchCount ==
    /\ []BatchCounts
    /\ (sampler_pc = "iterating") ~> (sampler_pc = "stopped")

\* An iteration has stopped after two batches or more, with primary items left
\* over, the secondary pool used more than once, and __len__ called.
C1_Witness ==
    /\ sampler_pc = "stopped"
    /\ Len(batches) >= 2
    /\ len_result # <<>>
    /\ Len(SecondaryEmitted) > Len(secondary_indices)
    /\ secondary_batch_size > 1

\* C2: over pairwise-distinct primary_indices, the first primary_batch_size entries
\* of every batch are primary indices and the rest are secondary indices, no
\* primary index is emitted twice in the epoch, and exactly
\* len(primary_indices) mod primary_batch_size primary indices are never emitted.
C2_PrimaryWithoutReplacement ==
    (Iterated /\ Distinct(primary_indices)) =>
        /\ \A k \in 1..Len(batches) :
               /\ Range(PrimaryPart(batches[k])) \subseteq Range(primary_indices)
               /\ Len(PrimaryPart(batches[k])) = primary_batch_size
               /\ Range(SecondaryPart(batches[k])) \subseteq Range(secondary_indices)
               /\ Len(SecondaryPart(batches[k])) = secondary_batch_size
        /\ Distinct(PrimaryEmitted)
        /\ sampler_pc = "stopped" =>
               Cardinality(Range(primary_indices) \ Range(PrimaryEmitted))
                   = Len(primary_indices) % primary_batch_size

\* An epoch over distinct primary indices has ended with a batch emitted and an
\* incomplete trailing group dropped.
C2_Witness ==
    /\ sampler_pc = "stopped"
    /\ Distinct(primary_indices)
    /\ Len(batches) >= 1
    /\ primary_batch_size > 1
    /\ Len(primary_indices) % primary_batch_size # 0

\* C3: construction fails with an assertion error, before anything is iterated,
\* whenever batch_size - secondary_batch_size <= 0, or secondary_batch_size <= 0,
\* or len(primary_indices) < primary_batch_size, or len(secondary_indices) <
\* secondary_batch_size; every sampler that is constructed satisfies
\* len(primary_indices) >= primary_batch_size > 0 and
\* len(secondary_indices) >= secondary_batch_size > 0.
C3_ConstructionFailsFast ==
    sampler_pc # "args" =>
        LET pbs == batch_size - secondary_batch_size
            bad == \/ pbs <= 0
                   \/ secondary_batch_size <= 0
                   \/ Len(primary_indices) < pbs
                   \/ Len(secondary_indices) < secondary_batch_size
        IN  /\ bad <=> sampler_pc = "AssertionError"
            /\ sampler_pc = "AssertionError" =>
                   primary_iter = <<>> /\ secondary_iter = <<>> /\ batches = <<>>
            /\ sampler_pc # "AssertionError" =>
                   /\ primary_batch_size = pbs
                   /\ Len(primary_indices) >= primary_batch_size /\ primary_batch_size > 0
                   /\ Len(secondary_indices) >= secondary_batch_size
                   /\ secondary_batch_size > 0

\* Construction has failed on the size of the secondary pool alone.
C3_Witness ==
    /\ sampler_pc = "AssertionError"
    /\ batch_size - secondary_batch_size > 0
    /\ Len(primary_indices) >= batch_size - secondary_batch_size
    /\ secondary_batch_size > 0
    /\ Len(secondary_indices) < secondary_batch_size

\* The items of s at positions lo..hi are every element of pool exactly once.
IsShuffleOf(s, lo, hi, pool) ==
    /\ {s[i] : i \in lo..hi} = Range(pool)
    /\ \A i, j \in lo..hi : s[i] = s[j] => i = j

\* C9: over S = len(secondary_indices) pairwise-distinct indices, the secondary
\* stream is a concatenation of complete shuffles of secondary_indices and never
\* runs out while the primary stream lasts: the draws at stream positions
\* [j*S, (j+1)*S) hold every secondary index exactly once, after any number of
\* batches the counts of any two secondary indices differ by at most 1, and the
\* batches take consecutive segments of the stream, without overlap or gap (what
\* the batches took, followed by what is left of the last shuffle, is the stream).
C9_SecondaryStream ==
    (Iterated /\ Distinct(secondary_indices)) =>
        LET S == Len(secondary_indices)
            emitted == SecondaryEmitted
            stream == emitted \o secondary_iter
            counts == [x \in Range(secondary_indices) |-> Count(emitted, x)]
        IN  /\ Len(emitted) = Len(batches) * secondary_batch_size
            /\ Len(stream) % S = 0
            /\ Len(secondary_iter) < S
            /\ \A j \in 0..(Len(stream) \div S) - 1 :
                   IsShuffleOf(stream, j * S + 1, (j + 1) * S, secondary_indices)
            /\ \A x, y \in Range(secondary_indices) : counts[x] - counts[y] <= 1
            /\ sampler_pc = "iterating" => ENABLED NextBatch

\* Some batch has taken the end of one shuffle and the start of the next.
C9_Witness ==
    /\ Iterated
    /\ Distinct(secondary_indices)
    /\ Len(batches) >= 2
    /\ Len(secondary_indices) % secondary_batch_size # 0
    /\ Len(SecondaryEmitted) > Len(secondary_indices)

----------------------------------------------------------------------------
\* Properties of RandomNoise.

Abs(x) == IF x < 0 THEN -x ELSE x

NoiseReturned == rn_call # <<>> /\ rn_call[1].status = "ok"

\* C5 as stated: every element of the output image is within 2*sigma of the
\* input's, and the label is the input's.
C5_WithinTwoSigma ==
    NoiseReturned =>
        LET c == rn_call[1]
        IN  /\ \A i \in 1..Len(c.sample.image.data) :
                   Abs(c.out.image.data[i] - c.sample.image.data[i]) <= 2 * rn_sigma
            /\ c.out.label = c.sample.label

\* C5, amended: on an image of three axes the call returns; every element of the
\* output image differs from the input's by mu plus a noise term of absolute
\* value at most 2*|sigma| (so by at most 2*sigma when mu = 0 and sigma >= 0), the
\* image keeps its shape, and the label is the input's.
C5_WithinTwoSigmaOfMu ==
    rn_call # <<>> =>
        LET c == rn_call[1]
        IN  /\ Len(c.sample.image.shape) = 3 => c.status = "ok"
            /\ c.status = "ok" =>
                   /\ c.out.image.shape = c.sample.image.shape
                   /\ Len(c.out.image.data) = Len(c.sample.image.data)
                   /\ \A i \in 1..Len(c.sample.image.data) :
                          Abs(c.out.image.data[i] - c.sample.image.data[i] - rn_mu)
                              <= 2 * Abs(rn_sigma)
                   /\ c.out.label = c.sample.label

\* A call with mu # 0 has returned an image with an element whose noise was
\* clipped at 2*sigma.
C5_Witness ==
    /\ NoiseReturned
    /\ rn_mu # 0
    /\ rn_sigma > 0
    /\ \E i \in 1..Len(rn_call[1].sample.image.data) :
           rn_call[1].out.image.data[i] - rn_call[1].sample.image.data[i] - rn_mu
               = 2 * rn_sigma

----------------------------------------------------------------------------
\* Properties of CreateOnehotLabel.

RECURSIVE SumSeq(_)
SumSeq(q) == IF q = <<>> THEN 0 ELSE Head(q) + SumSeq(Tail(q))

\* What C8 says of a call that returned: image and label are the input's,
\* onehot_label has shape (C, *label.shape), channel c is 1 exactly where
\* label == c and 0 elsewhere, and the channels sum to 1 where the label lies in
\* [0, C) and to 0 where it does not.
OnehotAsClaimed(c) ==
    LET C == oh_num_classes
        lb == c.sample.label
        oh == c.out.onehot_label
    IN  /\ c.out.image = c.sample.image
        /\ c.out.label = lb
        /\ oh.shape = <<C>> \o lb.shape
        /\ Len(oh.data) = C
        /\ \A ch \in 0..C - 1 :
               /\ Len(oh.data[ch + 1]) = Len(lb.data)
               /\ \A k \in 1..Len(lb.data) :
                      oh.data[ch + 1][k] = (IF lb.data[k] = ch THEN 1 ELSE 0)
        /\ \A k \in 1..Len(lb.data) :
               SumSeq([ch \in 1..C |-> oh.data[ch][k]])
                   = (IF lb.data[k] \in 0..C - 1 THEN 1 ELSE 0)

\* C8 as stated: applied to any label array the call returns such a sample.
C8_AnyLabelArray ==
    oh_call # <<>> => (oh_call[1].status = "ok" /\ OnehotAsClaimed(oh_call[1]))

\* C8, amended: applied to any label array of three axes the call returns such a
\* sample; on a label of fewer axes it ends with an IndexError.
C8_ThreeAxisLabel ==
    oh_call # <<>> =>
        LET c == oh_call[1]
        IN  /\ c.status = "ok" <=> Len(c.sample.label.shape) >= 3
            /\ c.status = "ok" => OnehotAsClaimed(c)

\* A call with two classes or more has returned on a label that holds a class
\* id and a value that is none.
C8_Witness ==
    /\ oh_call # <<>>
    /\ oh_call[1].status = "ok"
    /\ oh_num_classes >= 2
    /\ \E k \in 1..Len(oh_call[1].sample.label.data) :
           oh_call[1].sample.label.data[k] \in 1..oh_num_classes - 1
    /\ \E k \in 1..Len(oh_call[1].sample.label.data) :
           oh_call[1].sample.label.data[k] \notin 0..oh_num_classes - 1

----------------------------------------------------------------------------
\* Properties of Drive.

\* The position a valid idx reads, negative ones counted from the end.
PositionOf(idx, n) == IF idx >= 0 THEN idx + 1 ELSE idx + n + 1

\* The sample of position k: the whole image and the label's first channel.
ReadsPosition(c, k) ==
    /\ c.sample.image = image_list[k]
    /\ c.sample.label = [shape |-> <<1, 1, 1>>, data |-> <<label_list[k].data[1]>>]

\* C6 as stated: __getitem__(idx) fails with an index error for every idx
\* outside 0 <= idx < N, negative ones included, and returns the sample of
\* image[idx] and label[idx] for every idx inside.
C6_BoundsChecked ==
    getitem_call # <<>> =>
        LET c == getitem_call[1]
            N == Len(image_list)
        IN  /\ c.status = "IndexError" <=> ~(0 <= c.idx /\ c.idx < N)
            /\ c.status = "ok" => ReadsPosition(c, c.idx + 1)

\* C6, amended: __getitem__(idx) fails with an index error exactly when idx < -N
\* or idx >= N; for 0 <= idx < N it returns the sample of image[idx] and
\* label[idx], and for -N <= idx < 0 that of image[idx + N] and label[idx + N].
C6_NegativeIndexWraps ==
    getitem_call # <<>> =>
        LET c == getitem_call[1]
            N == Len(image_list)
        IN  /\ c.status = "IndexError" <=> (c.idx < -N \/ c.idx >= N)
            /\ c.status = "ok" => ReadsPosition(c, PositionOf(c.idx, N))

\* __getitem__(-1) has returned the last sample of a dataset of two or more.
C6_Witness ==
    /\ getitem_call # <<>>
    /\ getitem_call[1].idx = -1
    /\ getitem_call[1].status = "ok"
    /\ Len(image_list) >= 2
    /\ getitem_call[1].sample.image = image_list[Len(image_list)]

\* The stored arrays are the loaded ones under one reordering.
Aligned ==
    /\ Len(image_list) = Len(loaded.image)
    /\ Len(label_list) = Len(loaded.image)
    /\ Len(mask_list) = Len(loaded.image)
    /\ \E p \in permutation([i \in 1..Len(loaded.image) |-> i]) :
           \A i \in 1..Len(loaded.image) :
               /\ image_list[i] = loaded.image[p[i]]
               /\ label_list[i] = loaded.label[p[i]]
               /\ mask_list[i] = loaded.mask[p[i]]

\* C7: once constructed, image_list, label_list and mask_list are one and the
\* same permutation of the loaded arrays (index-aligned triples, every loaded
\* sample exactly once, length N), and no call of __len__ or __getitem__, with a
\* transform or without, changes them.
C7_OnePermutationKept ==
    /\ [](drive_pc = "ready" => Aligned)
    /\ [][drive_pc = "ready" => UNCHANGED <<image_list, label_list, mask_list>>]_vars

\* A dataset of two samples or more, stored in another order than loaded, has
\* answered __len__ and a __getitem__ that ran a transform.
C7_Witness ==
    /\ drive_pc = "ready"
    /\ Len(image_list) >= 2
    /\ image_list # loaded.image
    /\ transform # "None"
    /\ drive_len # <<>>
    /\ getitem_call # <<>>
    /\ getitem_call[1].status = "ok"

----------------------------------------------------------------------------
\* Properties of CenterCrop and RandomCrop.

\* C4: for every sample whose image and label have the same spatial shape,
\* smaller than, equal to or larger than the target, CenterCrop returns an image
\* and a label whose spatial shape is output_size exactly (after padding both by
\* max((output_size[d] - size[d]) // 2 + 3, 0) when a label extent is <= the
\* target's).  Stated of the samples line 55 can unpack, those with a three-axis
\* image.
C4_ExactOutputSize ==
    (cc_call # <<>> /\ Len(cc_call[1].sample.image) = 3) =>
        /\ cc_call[1].out.status = "ok"
        /\ SubSeq(cc_call[1].out.image, 1, 2) = cc_output_size
        /\ SubSeq(cc_call[1].out.label, 1, 2) = cc_output_size

\* What C10 says of the call c: after the padding step w - output_size[1] > 0
\* and h - output_size[2] > 0, so randint does not fail; 0 <= w1 < w -
\* output_size[1] and 0 <= h1 < h - output_size[2]; image, label and (when
\* with_sdf) sdf are sliced at the same offsets; every returned array has extent
\* output_size[1] on axis 1, output_size[2] on axis 2 and its input's extent on
\* axis 0.
RandomCropAsClaimed(c) ==
    LET cropped(a, o) ==
            /\ o.shape = <<a[1], rc_output_size[2], rc_output_size[3]>>
            /\ o.at = <<c.r.w1, c.r.h1>>
    IN  /\ c.r.w - rc_output_size[2] > 0
        /\ c.r.h - rc_output_size[3] > 0
        /\ c.r.status = "ok"
        /\ 0 <= c.r.w1 /\ c.r.w1 < c.r.w - rc_output_size[2]
        /\ 0 <= c.r.h1 /\ c.r.h1 < c.r.h - rc_output_size[3]
        /\ cropped(c.sample.image, c.r.out.image)
        /\ cropped(c.sample.label, c.r.out.label)
        /\ IF rc_with_sdf
           THEN cropped(c.sample.sdf, c.r.out.sdf)
           ELSE DOMAIN c.r.out = {"image", "label"}

SameExtents(a, b) == a[2] = b[2] /\ a[3] = b[3]

\* C10 as stated: that holds for every sample whose image and label have the
\* same extents on axes 1 and 2, and every output_size of positive entries.
C10_ImageAndLabelAgree ==
    (rc_call # <<>> /\ SameExtents(rc_call[1].sample.image, rc_call[1].sample.label)) =>
        RandomCropAsClaimed(rc_call[1])

\* C10, amended: that holds for every sample whose image, label and, when
\* with_sdf, sdf have the same extents on axes 1 and 2, and every output_size of
\* positive entries.
C10_AllArraysAgree ==
    (/\ rc_call # <<>>
     /\ SameExtents(rc_call[1].sample.image, rc_call[1].sample.label)
     /\ rc_with_sdf => SameExtents(rc_call[1].sample.sdf, rc_call[1].sample.label)) =>
        RandomCropAsClaimed(rc_call[1])

\* A crop with sdf has returned on a sample exactly as large as the target on
\* axes 1 and 2, whose axis 0 differs from output_size[0], at the largest offset
\* the draw allows.
C10_Witness ==
    /\ rc_call # <<>>
    /\ rc_with_sdf
    /\ rc_call[1].sample.image = rc_call[1].sample.label
    /\ rc_call[1].sample.sdf = rc_call[1].sample.label
    /\ rc_call[1].sample.label[2] = rc_output_size[2]
    /\ rc_call[1].sample.label[3] = rc_output_size[3]
    /\ rc_call[1].sample.label[1] # rc_output_size[1]
    /\ rc_call[1].r.status = "ok"
    /\ rc_call[1].r.padded
    /\ rc_call[1].r.w1 = rc_call[1].r.w - rc_output_size[2] - 1

====
